---- MODULE Spec2Model ----
(***************************************************************************)
(* Rate limiter (RateLimiterService), request gate (RateLimitGuard) and    *)
(* cache layer (CacheService) over one shared Redis database.              *)
(*                                                                         *)
(* Time is in milliseconds, as Date.now() and Redis PX/PTTL count it; the  *)
(* clock advances in steps of TickMs.  Every backend round trip is one     *)
(* atomic step at the server; the clock may advance between any two steps  *)
(* of a call (between Date.now() and the arrival of a command too).        *)
(*                                                                         *)
(* A Redis key "a:b:c" is the sequence <<"a","b","c">> of its components,  *)
(* so that KEYS "ns:*" is a test on the first component.                   *)
(***************************************************************************)
EXTENDS Integers, Sequences, FiniteSets, TLC

\* ------------------------------------------------------------- bounds
NumProcs == 2
MaxCalls == 4
MaxTicks == 2
TickMs == 30000
MaxPoints == 2
MaxFails == 1

\* ------------------------------------------------- program constants
GateBlockDuration == 60
defaultLimit == 100
defaultWindowMs == 60000
DEFAULT_TTL == 300
RefreshExpirationMs == 604800000

Procs == 1..NumProcs
Keys == {"k1"}
Durations == {30, 60}
BlockDurations == {0, 30}
NoExpiry == -1
NoKey == <<>>

Max(a, b) == IF a >= b THEN a ELSE b

\* ------------------------------------------------------ Redis commands
EmptyStore == [x \in {} |-> 0]

Live(s, key, t) == key \in DOMAIN s /\ (s[key].exp = NoExpiry \/ t < s[key].exp)

Purge(s, t) == [x \in {y \in DOMAIN s : Live(s, y, t)} |-> s[x]]

RedisIncr(s, key, t) ==
    IF Live(s, key, t)
    THEN [s EXCEPT ![key].val = @ + 1]
    ELSE (key :> [val |-> 1, exp |-> NoExpiry]) @@ s

RedisPttl(s, key, t) ==
    IF ~Live(s, key, t) THEN -2
    ELSE IF s[key].exp = NoExpiry THEN -1
    ELSE s[key].exp - t

RedisPexpire(s, key, ms, t) ==
    IF Live(s, key, t) THEN [s EXCEPT ![key].exp = t + ms] ELSE s

RedisSetPX(s, key, v, ms, t) == (key :> [val |-> v, exp |-> t + ms]) @@ s

RedisExists(s, key, t) == IF Live(s, key, t) THEN 1 ELSE 0

\* ------------------------------------------- RateLimiterService helpers
resultKey_noWindow(key, nowMs, duration) == <<"ratelimit", key, "0">>

resultKey(key, nowMs, duration) ==
    <<"ratelimit", key, ToString(nowMs \div (duration * 1000))>>

blockedKey(key) == <<"ratelimit", key, "blocked">>

windowTtlMs_seconds(duration) == duration

windowTtlMs(duration) == duration * 1000

blockTtlMs_seconds(blockDuration) == blockDuration

blockTtlMs(blockDuration) == blockDuration * 1000

remainingPoints_noFloor(points, consumedPoints) == points - consumedPoints

remainingPoints(points, consumedPoints) == Max(points - consumedPoints, 0)

isFirstRequest(consumedPoints) == consumedPoints = 1

msBeforeNext(consumedPoints, duration, ttl) ==
    IF isFirstRequest(consumedPoints) THEN duration * 1000 ELSE ttl

success_strict(consumedPoints, points) == consumedPoints < points

success_lenient(consumedPoints, points) == consumedPoints <= points + 1

success(consumedPoints, points) == consumedPoints <= points

shouldBlock_atLimit(consumedPoints, points, blockDuration) ==
    consumedPoints >= points /\ blockDuration # 0

shouldBlock(consumedPoints, points, blockDuration) ==
    consumedPoints > points /\ blockDuration # 0

FailOpen == [success |-> TRUE, remainingPoints |-> 1, msBeforeNext |-> 0]

consumeCatch_rethrow == [success |-> FALSE, remainingPoints |-> 0, msBeforeNext |-> 0, threw |-> TRUE]

consumeCatch == FailOpen @@ [threw |-> FALSE]

isBlockedKey_noSuffix(key) == <<"ratelimit", key>>

isBlockedKey(key) == blockedKey(key)

isBlockedCatch == FALSE

\* ------------------------------------------------ RateLimitGuard helpers
NoMeta == [limit |-> -1, windowMs |-> -1]

getRateLimitConfig(meta) ==
    IF meta = NoMeta THEN NoMeta
    ELSE [limit |-> IF meta.limit = 0 THEN defaultLimit ELSE meta.limit,
          windowMs |-> IF meta.windowMs = 0 THEN defaultWindowMs ELSE meta.windowMs]

gateConfig_noBlock(rateLimit) ==
    [points |-> rateLimit.limit, duration |-> rateLimit.windowMs \div 1000, blockDuration |-> 0]

gateConfig(rateLimit) ==
    [points |-> rateLimit.limit,
     duration |-> rateLimit.windowMs \div 1000,
     blockDuration |-> GateBlockDuration]

retryAfter(ms) == -((-ms) \div 1000)

\* ------------------------------------------------- CacheService helpers
getKey_noNamespace(key, namespace) == key

getKey(key, namespace) == IF namespace = NoKey THEN key ELSE namespace \o key

RedisSetEX_ms(s, key, v, ttl, t) == (key :> [val |-> v, exp |-> t + ttl]) @@ s

RedisSetEX(s, key, v, ttl, t) == (key :> [val |-> v, exp |-> t + ttl * 1000]) @@ s

RedisDel_none(s, keys, t) == s

RedisDel(s, keys, t) == [x \in {y \in DOMAIN s : y \notin keys} |-> s[x]]

\* the reply of DEL: how many of the keys were there
RedisDelCount(s, keys, t) == Cardinality({y \in keys : Live(s, y, t)})

RedisKeys_all(s, namespace, t) == {y \in DOMAIN s : Live(s, y, t)}

RedisKeys(s, namespace, t) ==
    {y \in DOMAIN s : Live(s, y, t) /\ Len(y) > Len(namespace)
                      /\ SubSeq(y, 1, Len(namespace)) = namespace}

RedisFlushdb(s) == EmptyStore

\* line 231: MGET, one reply per key, nil for a key that is not there
RedisMget(s, keys, t) ==
    [i \in 1..Len(keys) |-> IF Live(s, keys[i], t) THEN s[keys[i]].val ELSE ""]

\* line 245: INFO, the fields getStats reads
RedisInfo(s, hits) ==
    [keys |-> Cardinality(DOMAIN s), used_memory |-> 1 + Cardinality(DOMAIN s),
     keyspace_hits |-> hits]

\* the values callers cache (numbers, strings, Date objects), and JavaScript's null
Num(n) == [num |-> n]
Str(s) == [str |-> s]
Date(t) == [date |-> t]
Null == [null |-> TRUE]

\* Date.prototype.toJSON: the ISO text of the instant
toISOString(t) == "T" \o ToString(t)

CacheKeys == {<<"task", "1">>, <<"tasks", "f1">>}
CacheValues == {Num(1), Num(2)}
CacheTtls == {60, DEFAULT_TTL}
Namespaces == {<<"tasks">>, NoKey}

\* values with a Date in them, as the task rows the task service caches
DateTimes == {0}
RoundTripValues == {Num(1), Date(0)}

\* a task row, or a page of them, as the version of the data it was read at
TaskValues == {Num(r) : r \in 1..(MaxCalls + 1)}

\* what JSON.parse can return: null, numbers, strings
JsonValues ==
    {Null} \cup CacheValues \cup TaskValues \cup {Str(toISOString(t)) : t \in DateTimes}

\* lines 137, 216: JSON.stringify; a Date is written as the string of its toJSON
JSONstringify(value) ==
    IF value = Null THEN "null"
    ELSE IF "num" \in DOMAIN value THEN ToString(value.num)
    ELSE IF "str" \in DOMAIN value THEN "'" \o value.str \o "'"
    ELSE "'" \o toISOString(value.date) \o "'"

\* lines 152, 232: JSON.parse
JSONparse(text) == CHOOSE j \in JsonValues : JSONstringify(j) = text

\* lines 133, 210: const { ttl = DEFAULT_TTL, namespace } = options
NoOptions == [x \in {} |-> 0]

optionsTtl_noDefault(options) == IF "ttl" \in DOMAIN options THEN options.ttl ELSE 0

optionsTtl(options) == IF "ttl" \in DOMAIN options THEN options.ttl ELSE DEFAULT_TTL

optionsNamespace(options) ==
    IF "namespace" \in DOMAIN options THEN options.namespace ELSE NoKey

\* lines 150-152, 232: a nil reply is null, anything else is parsed
parseReply(value) == IF value = "" THEN Null ELSE JSONparse(value)

\* line 155
getCatch == Null

\* line 195
hasCatch == FALSE

\* line 164: result === 1
deleteResult_any(result) == result >= 0

deleteResult(result) == result = 1

\* line 167
deleteCatch == FALSE

\* line 235: new Array(keys.length).fill(null)
mgetCatch_empty(keys) == <<>>

mgetCatch(keys) == [i \in 1..Len(keys) |-> Null]

\* lines 257-260
getStatsCatch == [totalKeys |-> 0, memoryUsage |-> 0]

\* the calls the cache layer's callers make
BareKeys == {<<"a">>, <<"b">>}
CacheOptions == {NoOptions, [ttl |-> 60, namespace |-> <<"tasks">>]}
MgetKeys == {<< <<"a">>, <<"b">>, <<"c">> >>}
MsetBatches == {(<<"a">> :> Num(1)) @@ (<<"b">> :> Num(2)), (<<"b">> :> Num(1))}
InfoHits == {1}

\* ---------------------------------------------------------------- state
VARIABLES
    now,        \* the clock, ms
    store,      \* the Redis database: key -> [val, exp]
    config,     \* key -> the limit configuration of the route behind it
    pc,         \* process -> where it stands in its current call
    loc,        \* process -> the locals of its current call
    ret,        \* the call that returned in the latest step, and its result (NoRet: none did)
    calls,      \* calls started so far
    fails,      \* backend failures so far
    incrs,      \* history: <<key, window>> -> the processes whose INCR it got, in order
    granted,    \* history: <<key, window>> -> consume calls that returned success from a count
    blockUntil, \* history: key -> expiry of the BlockRecord last written by consume
    blockWrites,\* history: BlockRecord writes by consume so far
    db,         \* the SQL database: the tasks table and the refresh_tokens table
    audit       \* history: what the callers of the task and auth services were told

vars == <<now, store, config, pc, loc, ret, calls, fails, incrs, granted, blockUntil, blockWrites,
          db, audit>>

hist == <<incrs, granted, blockUntil, blockWrites>>

Configs == [points : 1..MaxPoints, duration : Durations, blockDuration : BlockDurations]

NoLoc == [op |-> "none"]
NoRet == [op |-> "none"]

\* the database: task "1" is stored (row version 1), task "2" is still to be created;
\* user u1 holds the refresh token of a login that is a minute short of seven days old
TaskIds == {"1", "2"}
UserIds == {"u1"}

InitDb ==
    [rev |-> 1,
     tasks |-> [id \in TaskIds |-> [rev |-> 1, exists |-> id = "1"]],
     tokens |-> <<[userId |-> "u1", isRevoked |-> FALSE, expiresAt |-> MaxTicks * TickMs]>>]

\* per refresh token: the refreshTokens calls that succeeded with it, and the number of
\* logouts completed when the call that issued it started; the logouts completed so far
InitAudit == [uses |-> <<0>>, issued |-> <<0>>, logouts |-> 0]

InitWith(configs) ==
    /\ now = 0
    /\ store = EmptyStore
    /\ config \in [Keys -> configs]
    /\ pc = [p \in Procs |-> "idle"]
    /\ loc = [p \in Procs |-> NoLoc]
    /\ ret = NoRet
    /\ calls = 0
    /\ fails = 0
    /\ incrs = [x \in {} |-> <<>>]
    /\ granted = [x \in {} |-> 0]
    /\ blockUntil = [k \in Keys |-> NoExpiry]
    /\ blockWrites = 0
    /\ db = InitDb
    /\ audit = InitAudit

Init == InitWith(Configs)

\* routes behind the gate: consume is always called with blockDuration 60 (line 37)
InitGate == InitWith({gateConfig([limit |-> c.points, windowMs |-> c.duration * 1000]) : c \in Configs})

At(f, x, dflt) == IF x \in DOMAIN f THEN f[x] ELSE dflt

WindowIndex(t, duration) == t \div (duration * 1000)

\* ------------------------------------------------------------ the clock
Tick ==
    /\ now < MaxTicks * TickMs
    /\ now' = now + TickMs
    /\ store' = Purge(store, now + TickMs)
    /\ ret' = NoRet
    /\ UNCHANGED <<config, fails, pc, loc, calls, hist, db, audit>>

\* ------------------------------------------- RateLimiterService.consume
\* lines 34-40: read the clock, derive resultKey, queue INCR and PTTL
consumeEnter(p, key, cfg, gate, rateLimit) ==
    /\ pc' = [pc EXCEPT ![p] = "exec"]
    /\ loc' = [loc EXCEPT ![p] =
                [op |-> "consume", gate |-> gate, rateLimit |-> rateLimit, key |-> key,
                 points |-> cfg.points, duration |-> cfg.duration,
                 blockDuration |-> cfg.blockDuration,
                 isBlocked |-> IF gate THEN loc[p].isBlocked ELSE FALSE,
                 resultKey |-> resultKey(key, now, cfg.duration),
                 win |-> WindowIndex(now, cfg.duration),
                 peers |-> 1 + Cardinality({q \in Procs \ {p} :
                              /\ pc[q] \in {"exec", "pexpire", "block"}
                              /\ loc[q].key = key
                              /\ loc[q].win = WindowIndex(now, cfg.duration)})]]

\* lines 72-76 / 80-84: the value consume resolves to, and where its caller goes on
consumeReturn(p, l, result, ord, inWindow, failedAt) ==
    LET cr == [op |-> "consume", proc |-> p, gate |-> l.gate, key |-> l.key,
               resultKey |-> l.resultKey, win |-> l.win, peers |-> l.peers,
               points |-> l.points, duration |-> l.duration,
               blockDuration |-> l.blockDuration,
               consumedPoints |-> IF ord = 0 THEN 0 ELSE l.consumedPoints,
               ord |-> ord, inWindow |-> inWindow, failOpen |-> failedAt # "none",
               failedAt |-> failedAt, result |-> result]
        g == At(granted, <<l.key, l.win>>, [all |-> 0, inWindow |-> 0])
    IN /\ ret' = cr
       /\ IF l.gate
          THEN /\ pc' = [pc EXCEPT ![p] = "headers"]
               /\ loc' = [loc EXCEPT ![p] =
                            [op |-> "canActivate", key |-> l.key,
                             rateLimit |-> l.rateLimit, isBlocked |-> l.isBlocked,
                             result |-> result]]
          ELSE /\ pc' = [pc EXCEPT ![p] = "idle"]
               /\ loc' = [loc EXCEPT ![p] = NoLoc]
       /\ granted' = IF result.success /\ failedAt = "none"
                     THEN (<<l.key, l.win>> :>
                             [all |-> g.all + 1,
                              inWindow |-> g.inWindow + IF inWindow THEN 1 ELSE 0]) @@ granted
                     ELSE granted

consumeResult(l) ==
    [success |-> success(l.consumedPoints, l.points),
     remainingPoints |-> remainingPoints(l.points, l.consumedPoints),
     msBeforeNext |-> msBeforeNext(l.consumedPoints, l.duration, l.ttl),
     threw |-> FALSE]

consume(p, k) ==
    /\ pc[p] = "idle"
    /\ calls < MaxCalls
    /\ calls' = calls + 1
    /\ consumeEnter(p, k, config[k], FALSE, NoMeta)
    /\ ret' = NoRet
    /\ UNCHANGED <<now, store, config, fails, hist, db, audit>>

\* lines 43-51: the MULTI round trip, INCR and PTTL in one atomic step
ConsumeExec(p) ==
    /\ pc[p] = "exec"
    /\ LET l == loc[p]
           s1 == RedisIncr(store, l.resultKey, now)
           consumedPoints == s1[l.resultKey].val
           ttl == RedisPttl(s1, l.resultKey, now)
           l1 == l @@ [consumedPoints |-> consumedPoints, ttl |-> ttl,
                       ord |-> Len(At(incrs, <<l.key, l.win>>, <<>>)) + 1,
                       inWindow |-> WindowIndex(now, l.duration) = l.win]
       IN /\ store' = s1
          /\ incrs' = (<<l.key, l.win>> :> Append(At(incrs, <<l.key, l.win>>, <<>>), p)) @@ incrs
          /\ IF isFirstRequest(consumedPoints)
             THEN /\ pc' = [pc EXCEPT ![p] = "pexpire"]
                  /\ loc' = [loc EXCEPT ![p] = l1]
                  /\ ret' = NoRet /\ UNCHANGED granted
             ELSE IF shouldBlock(consumedPoints, l.points, l.blockDuration)
             THEN /\ pc' = [pc EXCEPT ![p] = "block"]
                  /\ loc' = [loc EXCEPT ![p] = l1]
                  /\ ret' = NoRet /\ UNCHANGED granted
             ELSE consumeReturn(p, l1, consumeResult(l1), l1.ord, l1.inWindow, "none")
    /\ UNCHANGED <<now, config, fails, calls, blockUntil, blockWrites, db, audit>>

\* lines 54-56: PEXPIRE for the first request of a window, a second round trip
ConsumePexpire(p) ==
    /\ pc[p] = "pexpire"
    /\ LET l == loc[p]
       IN /\ store' = RedisPexpire(store, l.resultKey, windowTtlMs(l.duration), now)
          /\ IF shouldBlock(l.consumedPoints, l.points, l.blockDuration)
             THEN /\ pc' = [pc EXCEPT ![p] = "block"]
                  /\ ret' = NoRet /\ UNCHANGED <<loc, granted>>
             ELSE consumeReturn(p, l, consumeResult(l), l.ord, l.inWindow, "none")
    /\ UNCHANGED <<now, config, fails, calls, incrs, blockUntil, blockWrites, db, audit>>

\* lines 63-70: SET key:blocked '1' PX blockDuration*1000, a further round trip
ConsumeBlock(p) ==
    /\ pc[p] = "block"
    /\ LET l == loc[p]
       IN /\ store' = RedisSetPX(store, blockedKey(l.key), "1", blockTtlMs(l.blockDuration), now)
          /\ blockUntil' = [blockUntil EXCEPT ![l.key] = now + l.blockDuration * 1000]
          /\ blockWrites' = blockWrites + 1
          /\ consumeReturn(p, l, consumeResult(l), l.ord, l.inWindow, "none")
    /\ UNCHANGED <<now, config, fails, calls, incrs, db, audit>>

\* lines 77-85: a backend call of consume failed; the command may or may not have
\* taken effect at the server before the failure reached the caller
ConsumeFail(p) ==
    /\ pc[p] \in {"exec", "pexpire", "block"}
    /\ fails < MaxFails
    /\ fails' = fails + 1
    /\ LET l == loc[p]
           ord == IF pc[p] = "exec" THEN 0 ELSE l.ord
       IN /\ \E applied \in BOOLEAN :
                /\ store' = IF ~applied THEN store
                            ELSE IF pc[p] = "exec" THEN RedisIncr(store, l.resultKey, now)
                            ELSE IF pc[p] = "pexpire"
                            THEN RedisPexpire(store, l.resultKey, windowTtlMs(l.duration), now)
                            ELSE RedisSetPX(store, blockedKey(l.key), "1",
                                            blockTtlMs(l.blockDuration), now)
                /\ incrs' = IF applied /\ pc[p] = "exec"
                            THEN (<<l.key, l.win>> :> Append(At(incrs, <<l.key, l.win>>, <<>>), p)) @@ incrs
                            ELSE incrs
                /\ blockUntil' = IF applied /\ pc[p] = "block"
                                 THEN [blockUntil EXCEPT ![l.key] = now + l.blockDuration * 1000]
                                 ELSE blockUntil
                /\ blockWrites' = IF applied /\ pc[p] = "block"
                                  THEN blockWrites + 1 ELSE blockWrites
          /\ consumeReturn(p, l, consumeCatch, ord, FALSE, pc[p])
    /\ UNCHANGED <<now, config, calls, db, audit>>

\* ----------------------------------------- RateLimiterService.isBlocked
isBlockedEnter(p, key, gate, rateLimit) ==
    /\ pc' = [pc EXCEPT ![p] = "exists"]
    /\ loc' = [loc EXCEPT ![p] =
                [op |-> "isBlocked", gate |-> gate, rateLimit |-> rateLimit, key |-> key]]

isBlockedReturn(p, l, blocked, failed) ==
    /\ ret' = [op |-> "isBlocked", proc |-> p, gate |-> l.gate, key |-> l.key,
               blocked |-> blocked, failed |-> failed, threw |-> FALSE]
    /\ IF l.gate
       THEN /\ pc' = [pc EXCEPT ![p] = "checked"]
            /\ loc' = [loc EXCEPT ![p] =
                         [op |-> "canActivate", key |-> l.key, rateLimit |-> l.rateLimit,
                          isBlocked |-> blocked, checkFailed |-> failed,
                          seenWrites |-> blockWrites]]
       ELSE /\ pc' = [pc EXCEPT ![p] = "idle"]
            /\ loc' = [loc EXCEPT ![p] = NoLoc]

isBlocked(p, k) ==
    /\ pc[p] = "idle"
    /\ calls < MaxCalls
    /\ calls' = calls + 1
    /\ isBlockedEnter(p, k, FALSE, NoMeta)
    /\ ret' = NoRet
    /\ UNCHANGED <<now, store, config, fails, hist, db, audit>>

\* line 90: EXISTS key:blocked
IsBlockedExec(p) ==
    /\ pc[p] = "exists"
    /\ isBlockedReturn(p, loc[p], RedisExists(store, isBlockedKey(loc[p].key), now) = 1, FALSE)
    /\ UNCHANGED <<now, store, config, fails, calls, hist, db, audit>>

\* lines 91-94: the backend call failed
IsBlockedFail(p) ==
    /\ pc[p] = "exists"
    /\ fails < MaxFails
    /\ fails' = fails + 1
    /\ isBlockedReturn(p, loc[p], isBlockedCatch, TRUE)
    /\ UNCHANGED <<now, store, config, calls, hist, db, audit>>

\* ------------------------------------------- RateLimitGuard.canActivate
RouteMetas ==
    {NoMeta} \cup {[limit |-> config[k].points, windowMs |-> config[k].duration * 1000] : k \in Keys}

\* lines 19-21: no configuration for the route, the request is allowed at once
gateUnlimited_never(rateLimit) == FALSE

gateUnlimited(rateLimit) == rateLimit = NoMeta

\* lines 16-26: resolve the configuration, derive the key, call isBlocked
canActivate(p, k, meta) ==
    /\ pc[p] = "idle"
    /\ calls < MaxCalls
    /\ calls' = calls + 1
    /\ LET rateLimit == getRateLimitConfig(meta)
       IN IF gateUnlimited(rateLimit)
          THEN /\ ret' = [op |-> "canActivate", proc |-> p, key |-> k, outcome |-> "allow",
                           limited |-> FALSE, blocked |-> FALSE, consumed |-> FALSE]
               /\ UNCHANGED <<pc, loc>>
          ELSE /\ isBlockedEnter(p, k, TRUE, rateLimit)
               /\ ret' = NoRet
    /\ UNCHANGED <<now, store, config, fails, hist, db, audit>>

\* lines 27-38: reject when blocked, otherwise call consume
gateEntersConsume_unchecked(isBlockedResult) == TRUE

gateEntersConsume(isBlockedResult) == ~isBlockedResult

GateChecked(p) ==
    /\ pc[p] = "checked"
    /\ LET l == loc[p]
       IN IF gateEntersConsume(l.isBlocked)
          THEN /\ consumeEnter(p, l.key, gateConfig(l.rateLimit), TRUE, l.rateLimit)
               /\ ret' = [op |-> "gateConsume", proc |-> p, key |-> l.key,
                           checkFailed |-> l.checkFailed, seenWrites |-> l.seenWrites]
          ELSE /\ pc' = [pc EXCEPT ![p] = "idle"]
               /\ loc' = [loc EXCEPT ![p] = NoLoc]
               /\ ret' = [op |-> "canActivate", proc |-> p, key |-> l.key,
                           outcome |-> "reject", limited |-> TRUE,
                           blocked |-> l.isBlocked, consumed |-> FALSE]
    /\ UNCHANGED <<now, store, config, fails, calls, hist, db, audit>>

\* lines 46-54: reject with 429 when consume did not succeed, allow otherwise
gateOutcome_allowAll(consumeSuccess) == "allow"

gateOutcome(consumeSuccess) == IF consumeSuccess THEN "allow" ELSE "reject"

\* lines 40-54: the three headers, then reject on success=false or allow
GateHeaders(p) ==
    /\ pc[p] = "headers"
    /\ LET l == loc[p]
           headers == [limit |-> l.rateLimit.limit,
                       remaining |-> l.result.remainingPoints,
                       reset |-> now + l.result.msBeforeNext]
       IN /\ ret' = [op |-> "canActivate", proc |-> p, key |-> l.key,
                      outcome |-> gateOutcome(l.result.success),
                      limited |-> TRUE, blocked |-> l.isBlocked, consumed |-> TRUE,
                      headers |-> headers,
                      retryAfter |-> retryAfter(l.result.msBeforeNext),
                      result |-> l.result]
          /\ pc' = [pc EXCEPT ![p] = "idle"]
          /\ loc' = [loc EXCEPT ![p] = NoLoc]
    /\ UNCHANGED <<now, store, config, fails, calls, hist, db, audit>>

\* ------------------------------------------------------- CacheService
cacheReturn(p, r) ==
    /\ pc' = [pc EXCEPT ![p] = "idle"]
    /\ loc' = [loc EXCEPT ![p] = NoLoc]
    /\ ret' = r @@ [proc |-> p]

cacheCall(p) ==
    /\ pc[p] = "idle"
    /\ calls < MaxCalls
    /\ calls' = calls + 1

backendFails ==
    /\ fails < MaxFails
    /\ fails' = fails + 1

\* lines 132-138: SET finalKey JSON.stringify(value) EX ttl
CacheSet(p, key, value, options) ==
    /\ cacheCall(p)
    /\ store' = RedisSetEX(store, getKey(key, optionsNamespace(options)),
                           JSONstringify(value), optionsTtl(options), now)
    /\ cacheReturn(p, [op |-> "set", key |-> key, value |-> value, options |-> options,
                       threw |-> FALSE])
    /\ UNCHANGED <<now, config, fails, hist, db, audit>>

\* lines 139-142: the SET failed, before or after the server carried it out; the error
\* is thrown on
CacheSetFail(p, key, value, options) ==
    /\ cacheCall(p)
    /\ backendFails
    /\ \E applied \in BOOLEAN :
          store' = IF applied
                   THEN RedisSetEX(store, getKey(key, optionsNamespace(options)),
                                   JSONstringify(value), optionsTtl(options), now)
                   ELSE store
    /\ cacheReturn(p, [op |-> "set", key |-> key, value |-> value, options |-> options,
                       threw |-> TRUE])
    /\ UNCHANGED <<now, config, hist, db, audit>>

\* lines 145-152: GET finalKey, null for a nil reply, the parsed value otherwise
CacheGet(p, key, namespace) ==
    /\ cacheCall(p)
    /\ cacheReturn(p, [op |-> "get", key |-> key, namespace |-> namespace,
                       value |-> parseReply(RedisMget(store, <<getKey(key, namespace)>>, now)[1]),
                       failed |-> FALSE, threw |-> FALSE])
    /\ UNCHANGED <<now, store, config, fails, hist, db, audit>>

\* lines 153-156
CacheGetFail(p, key, namespace) ==
    /\ cacheCall(p)
    /\ backendFails
    /\ cacheReturn(p, [op |-> "get", key |-> key, namespace |-> namespace,
                       value |-> getCatch, failed |-> TRUE, threw |-> FALSE])
    /\ UNCHANGED <<now, store, config, hist, db, audit>>

\* lines 187-192: EXISTS finalKey
CacheHas(p, key, namespace) ==
    /\ cacheCall(p)
    /\ cacheReturn(p, [op |-> "has", key |-> key, namespace |-> namespace,
                       value |-> RedisExists(store, getKey(key, namespace), now) = 1,
                       failed |-> FALSE, threw |-> FALSE])
    /\ UNCHANGED <<now, store, config, fails, hist, db, audit>>

\* lines 193-196
CacheHasFail(p, key, namespace) ==
    /\ cacheCall(p)
    /\ backendFails
    /\ cacheReturn(p, [op |-> "has", key |-> key, namespace |-> namespace,
                       value |-> hasCatch, failed |-> TRUE, threw |-> FALSE])
    /\ UNCHANGED <<now, store, config, hist, db, audit>>

\* lines 159-164: DEL finalKey, true iff one key was removed
CacheDelete(p, key, namespace) ==
    /\ cacheCall(p)
    /\ store' = RedisDel(store, {getKey(key, namespace)}, now)
    /\ cacheReturn(p, [op |-> "delete", key |-> key, namespace |-> namespace,
                       value |-> deleteResult(RedisDelCount(store, {getKey(key, namespace)}, now)),
                       failed |-> FALSE, threw |-> FALSE])
    /\ UNCHANGED <<now, config, fails, hist, db, audit>>

\* lines 165-168: the DEL failed, before or after the server carried it out
CacheDeleteFail(p, key, namespace) ==
    /\ cacheCall(p)
    /\ backendFails
    /\ \E applied \in BOOLEAN :
          store' = IF applied THEN RedisDel(store, {getKey(key, namespace)}, now) ELSE store
    /\ cacheReturn(p, [op |-> "delete", key |-> key, namespace |-> namespace,
                       value |-> deleteCatch, failed |-> TRUE, threw |-> FALSE])
    /\ UNCHANGED <<now, config, hist, db, audit>>

\* lines 171-180: KEYS namespace:* (or FLUSHDB when no namespace is given)
CacheClear(p, namespace) ==
    /\ cacheCall(p)
    /\ IF namespace # NoKey
       THEN LET keys == RedisKeys(store, namespace, now)
            IN /\ store' = store
               /\ IF keys # {}
                  THEN /\ pc' = [pc EXCEPT ![p] = "del"]
                       /\ loc' = [loc EXCEPT ![p] =
                                    [op |-> "clear", namespace |-> namespace, keys |-> keys]]
                       /\ ret' = NoRet
                  ELSE cacheReturn(p, [op |-> "clear", namespace |-> namespace,
                                       keys |-> keys, threw |-> FALSE])
       ELSE /\ store' = RedisFlushdb(store)
            /\ cacheReturn(p, [op |-> "clear", namespace |-> namespace, keys |-> {},
                               threw |-> FALSE])
    /\ UNCHANGED <<now, config, fails, hist, db, audit>>

\* line 176: DEL ...keys, a second round trip after the enumeration
CacheClearDel(p) ==
    /\ pc[p] = "del"
    /\ store' = RedisDel(store, loc[p].keys, now)
    /\ cacheReturn(p, [op |-> "clear", namespace |-> loc[p].namespace,
                       keys |-> loc[p].keys, threw |-> FALSE])
    /\ UNCHANGED <<now, config, fails, calls, hist, db, audit>>

\* lines 181-184: the catch of clear logs and throws the error on
clearCatch == [threw |-> TRUE]

\* lines 174 / 179 failed: KEYS changes nothing, FLUSHDB may have been carried out
CacheClearFail(p, namespace) ==
    /\ cacheCall(p)
    /\ backendFails
    /\ \E applied \in BOOLEAN :
          store' = IF applied /\ namespace = NoKey THEN RedisFlushdb(store) ELSE store
    /\ cacheReturn(p, [op |-> "clear", namespace |-> namespace, keys |-> {}] @@ clearCatch)
    /\ UNCHANGED <<now, config, hist, db, audit>>

\* line 176 failed, before or after the server carried it out
CacheClearDelFail(p) ==
    /\ pc[p] = "del"
    /\ backendFails
    /\ \E applied \in BOOLEAN :
          store' = IF applied THEN RedisDel(store, loc[p].keys, now) ELSE store
    /\ cacheReturn(p, [op |-> "clear", namespace |-> loc[p].namespace,
                       keys |-> loc[p].keys] @@ clearCatch)
    /\ UNCHANGED <<now, config, calls, hist, db, audit>>

\* lines 214-220: one SET per entry, queued in a pipeline and sent by exec; `written` are
\* the entries whose SET the server carried out
msetWrite(s, keyValues, options, written, t) ==
    LET finalKey(k) == getKey(k, optionsNamespace(options))
        finalKeys == {finalKey(k) : k \in written}
        entry(fk) == CHOOSE k \in written : finalKey(k) = fk
    IN [fk \in finalKeys \cup DOMAIN s |->
          IF fk \in finalKeys
          THEN [val |-> JSONstringify(keyValues[entry(fk)]),
                exp |-> t + optionsTtl(options) * 1000]
          ELSE s[fk]]

msetReturn(p, keyValues, options, written, threw) ==
    cacheReturn(p, [op |-> "mset", keyValues |-> keyValues, options |-> options,
                    written |-> written, threw |-> threw])

CacheMset(p, keyValues, options) ==
    /\ cacheCall(p)
    /\ store' = msetWrite(store, keyValues, options, DOMAIN keyValues, now)
    /\ msetReturn(p, keyValues, options, DOMAIN keyValues, FALSE)
    /\ UNCHANGED <<now, config, fails, hist, db, audit>>

\* line 220: exec resolves to one [error, reply] pair per queued command (the form
\* RateLimiterService.consume reads); a SET the server refused is an error in its pair,
\* which mset does not look at
CacheMsetCommandError(p, keyValues, options) ==
    /\ cacheCall(p)
    /\ backendFails
    /\ \E refused \in SUBSET (DOMAIN keyValues) \ {{}} :
          /\ store' = msetWrite(store, keyValues, options, DOMAIN keyValues \ refused, now)
          /\ msetReturn(p, keyValues, options, DOMAIN keyValues \ refused, FALSE)
    /\ UNCHANGED <<now, config, hist, db, audit>>

\* lines 221-224: exec itself rejected, some of the SETs possibly carried out
CacheMsetFail(p, keyValues, options) ==
    /\ cacheCall(p)
    /\ backendFails
    /\ \E applied \in SUBSET (DOMAIN keyValues) :
          /\ store' = msetWrite(store, keyValues, options, applied, now)
          /\ msetReturn(p, keyValues, options, applied, TRUE)
    /\ UNCHANGED <<now, config, hist, db, audit>>

\* lines 227-232: MGET finalKeys, each reply parsed or null
CacheMget(p, keys, namespace) ==
    /\ cacheCall(p)
    /\ LET finalKeys == [i \in 1..Len(keys) |-> getKey(keys[i], namespace)]
           values == RedisMget(store, finalKeys, now)
       IN cacheReturn(p, [op |-> "mget", keys |-> keys, namespace |-> namespace,
                          value |-> [i \in 1..Len(values) |-> parseReply(values[i])],
                          failed |-> FALSE, threw |-> FALSE])
    /\ UNCHANGED <<now, store, config, fails, hist, db, audit>>

\* lines 233-236
CacheMgetFail(p, keys, namespace) ==
    /\ cacheCall(p)
    /\ backendFails
    /\ cacheReturn(p, [op |-> "mget", keys |-> keys, namespace |-> namespace,
                       value |-> mgetCatch(keys), failed |-> TRUE, threw |-> FALSE])
    /\ UNCHANGED <<now, store, config, hist, db, audit>>

\* lines 244-254: INFO, and KEYS namespace:* when a namespace is given
CacheGetStats(p, namespace) ==
    /\ cacheCall(p)
    /\ \E hits \in InfoHits :
          LET info == RedisInfo(store, hits)
              keyCount == IF namespace # NoKey
                          THEN Cardinality(RedisKeys(store, namespace, now))
                          ELSE info.keys
          IN cacheReturn(p, [op |-> "getStats", namespace |-> namespace,
                             value |-> [totalKeys |-> keyCount,
                                        memoryUsage |-> info.used_memory,
                                        hitRate |-> info.keyspace_hits],
                             failed |-> FALSE, threw |-> FALSE])
    /\ UNCHANGED <<now, store, config, fails, hist, db, audit>>

\* lines 255-261
CacheGetStatsFail(p, namespace) ==
    /\ cacheCall(p)
    /\ backendFails
    /\ cacheReturn(p, [op |-> "getStats", namespace |-> namespace,
                       value |-> getStatsCatch, failed |-> TRUE, threw |-> FALSE])
    /\ UNCHANGED <<now, store, config, hist, db, audit>>

\* ------------------------------------------------------ specifications
\* the rate limiter and its direct callers, the backend never failing
NextLimiter ==
    \/ Tick
    \/ \E p \in Procs, k \in Keys : consume(p, k)
    \/ \E p \in Procs, k \in Keys : isBlocked(p, k)
    \/ \E p \in Procs : ConsumeExec(p)
    \/ \E p \in Procs : ConsumePexpire(p)
    \/ \E p \in Procs : ConsumeBlock(p)
    \/ \E p \in Procs : IsBlockedExec(p)

SpecLimiter == Init /\ [][NextLimiter]_vars

\* the same, every backend call free to fail
NextLimiterFail ==
    \/ NextLimiter
    \/ \E p \in Procs : ConsumeFail(p)
    \/ \E p \in Procs : IsBlockedFail(p)

SpecLimiterFail == Init /\ [][NextLimiterFail]_vars

\* the request gate as the limiter's only caller, every backend call free to fail
NextGate ==
    \/ Tick
    \/ \E p \in Procs, k \in Keys, m \in RouteMetas : canActivate(p, k, m)
    \/ \E p \in Procs : IsBlockedExec(p)
    \/ \E p \in Procs : IsBlockedFail(p)
    \/ \E p \in Procs : GateChecked(p)
    \/ \E p \in Procs : ConsumeExec(p)
    \/ \E p \in Procs : ConsumePexpire(p)
    \/ \E p \in Procs : ConsumeBlock(p)
    \/ \E p \in Procs : ConsumeFail(p)
    \/ \E p \in Procs : GateHeaders(p)

SpecGate == InitGate /\ [][NextGate]_vars

\* the limiter and the cache layer on the one database they share
Next ==
    \/ NextLimiter
    \/ \E p \in Procs, key \in CacheKeys, v \in CacheValues, ttl \in CacheTtls :
          CacheSet(p, key, v, [ttl |-> ttl])
    \/ \E p \in Procs, key \in CacheKeys : CacheDelete(p, key, NoKey)
    \/ \E p \in Procs, ns \in Namespaces : CacheClear(p, ns)
    \/ \E p \in Procs : CacheClearDel(p)

Spec == Init /\ [][Next]_vars

\* the cache layer alone, the backend never failing
InitCache == InitWith({[points |-> MaxPoints, duration |-> 60, blockDuration |-> 0]})

NextCache ==
    \/ Tick
    \/ \E p \in Procs, key \in BareKeys, v \in CacheValues, o \in CacheOptions :
          CacheSet(p, key, v, o)
    \/ \E p \in Procs, key \in BareKeys, ns \in Namespaces : CacheGet(p, key, ns)
    \/ \E p \in Procs, key \in BareKeys, ns \in Namespaces : CacheHas(p, key, ns)
    \/ \E p \in Procs, key \in BareKeys, ns \in Namespaces : CacheDelete(p, key, ns)
    \/ \E p \in Procs, ns \in Namespaces : CacheClear(p, ns)
    \/ \E p \in Procs : CacheClearDel(p)
    \/ \E p \in Procs, kv \in MsetBatches, o \in CacheOptions : CacheMset(p, kv, o)
    \/ \E p \in Procs, keys \in MgetKeys, ns \in Namespaces : CacheMget(p, keys, ns)
    \/ \E p \in Procs, ns \in Namespaces : CacheGetStats(p, ns)

SpecCache == InitCache /\ [][NextCache]_vars

\* the same, every backend call free to fail
NextCacheFail ==
    \/ NextCache
    \/ \E p \in Procs, key \in BareKeys, v \in CacheValues, o \in CacheOptions :
          CacheSetFail(p, key, v, o)
    \/ \E p \in Procs, key \in BareKeys, ns \in Namespaces : CacheGetFail(p, key, ns)
    \/ \E p \in Procs, key \in BareKeys, ns \in Namespaces : CacheHasFail(p, key, ns)
    \/ \E p \in Procs, key \in BareKeys, ns \in Namespaces : CacheDeleteFail(p, key, ns)
    \/ \E p \in Procs, ns \in Namespaces : CacheClearFail(p, ns)
    \/ \E p \in Procs : CacheClearDelFail(p)
    \/ \E p \in Procs, kv \in MsetBatches, o \in CacheOptions :
          CacheMsetCommandError(p, kv, o)
    \/ \E p \in Procs, kv \in MsetBatches, o \in CacheOptions : CacheMsetFail(p, kv, o)
    \/ \E p \in Procs, keys \in MgetKeys, ns \in Namespaces : CacheMgetFail(p, keys, ns)
    \/ \E p \in Procs, ns \in Namespaces : CacheGetStatsFail(p, ns)

SpecCacheFail == InitCache /\ [][NextCacheFail]_vars

\* set, get and delete of one key, with values that JSON does not hand back as written
NextRoundTrip ==
    \/ Tick
    \/ \E p \in Procs, v \in RoundTripValues, o \in CacheOptions : CacheSet(p, <<"a">>, v, o)
    \/ \E p \in Procs, ns \in Namespaces : CacheGet(p, <<"a">>, ns)
    \/ \E p \in Procs, ns \in Namespaces : CacheDelete(p, <<"a">>, ns)

SpecRoundTrip == InitCache /\ [][NextRoundTrip]_vars

\* ------------------------------------------------------- TasksService
\* TASK_CACHE_PATTERNS.SINGLE_TASK: `task:${id}`
SINGLE_TASK(id) == <<"task", id>>

\* line 74: `tasks:${JSON.stringify(filter)}`
Filters == {"f1"}
listKey(filter) == <<"tasks", filter>>

\* lines 77, 143: if (cached) return cached; otherwise go on to the database
afterGet(p, op, arg, cacheKey, cached) ==
    IF cached # Null
    THEN cacheReturn(p, [op |-> op, arg |-> arg, value |-> cached, error |-> "",
                         threw |-> FALSE])
    ELSE /\ pc' = [pc EXCEPT ![p] = "query"]
         /\ loc' = [loc EXCEPT ![p] = [op |-> op, arg |-> arg, cacheKey |-> cacheKey]]
         /\ ret' = NoRet

\* lines 139-145: cacheService.get of task:<id>
findOne(p, id) ==
    /\ cacheCall(p)
    /\ afterGet(p, "findOne", id, SINGLE_TASK(id),
                parseReply(RedisMget(store, <<getKey(SINGLE_TASK(id), NoKey)>>, now)[1]))
    /\ UNCHANGED <<now, store, config, fails, hist, db, audit>>

\* line 141 with the GET failing: get answers null, the call goes on as after a miss
findOneGetFail(p, id) ==
    /\ cacheCall(p)
    /\ backendFails
    /\ afterGet(p, "findOne", id, SINGLE_TASK(id), getCatch)
    /\ UNCHANGED <<now, store, config, hist, db, audit>>

\* lines 147-154: the row is read from the database; NotFoundException without one
findOneQuery(p) ==
    /\ pc[p] = "query"
    /\ loc[p].op = "findOne"
    /\ IF db.tasks[loc[p].arg].exists
       THEN /\ pc' = [pc EXCEPT ![p] = "cacheSet"]
            /\ loc' = [loc EXCEPT ![p] =
                         loc[p] @@ [value |-> Num(db.tasks[loc[p].arg].rev), ttl |-> 300]]
            /\ ret' = NoRet
       ELSE cacheReturn(p, [op |-> "findOne", arg |-> loc[p].arg, value |-> Null,
                            error |-> "NotFound", threw |-> TRUE])
    /\ UNCHANGED <<now, store, config, fails, calls, hist, db, audit>>

\* lines 135-136, 156-157: cacheService.set(cacheKey, result, { ttl }) and the result
readThroughSet(p, op) ==
    /\ pc[p] = "cacheSet"
    /\ loc[p].op = op
    /\ store' = RedisSetEX(store, getKey(loc[p].cacheKey, NoKey),
                           JSONstringify(loc[p].value), loc[p].ttl, now)
    /\ cacheReturn(p, [op |-> op, arg |-> loc[p].arg, value |-> loc[p].value,
                       error |-> "", threw |-> FALSE])
    /\ UNCHANGED <<now, config, fails, calls, hist, db, audit>>

\* lines 135, 156 with the SET failing: set throws the error on and nothing catches it
readThroughSetFail(p, op) ==
    /\ pc[p] = "cacheSet"
    /\ loc[p].op = op
    /\ backendFails
    /\ \E applied \in BOOLEAN :
          store' = IF applied
                   THEN RedisSetEX(store, getKey(loc[p].cacheKey, NoKey),
                                   JSONstringify(loc[p].value), loc[p].ttl, now)
                   ELSE store
    /\ cacheReturn(p, [op |-> op, arg |-> loc[p].arg, value |-> Null,
                       error |-> "cache", threw |-> TRUE])
    /\ UNCHANGED <<now, config, calls, hist, db, audit>>

\* lines 74-79: cacheService.get of tasks:<filter>
findAll(p, filter) ==
    /\ cacheCall(p)
    /\ afterGet(p, "findAll", filter, listKey(filter),
                parseReply(RedisMget(store, <<getKey(listKey(filter), NoKey)>>, now)[1]))
    /\ UNCHANGED <<now, store, config, fails, hist, db, audit>>

findAllGetFail(p, filter) ==
    /\ cacheCall(p)
    /\ backendFails
    /\ afterGet(p, "findAll", filter, listKey(filter), getCatch)
    /\ UNCHANGED <<now, store, config, hist, db, audit>>

\* lines 81-133: the page is read from the database
findAllQuery(p) ==
    /\ pc[p] = "query"
    /\ loc[p].op = "findAll"
    /\ pc' = [pc EXCEPT ![p] = "cacheSet"]
    /\ loc' = [loc EXCEPT ![p] = loc[p] @@ [value |-> Num(db.rev), ttl |-> 60]]
    /\ ret' = NoRet
    /\ UNCHANGED <<now, store, config, fails, calls, hist, db, audit>>

\* save or remove of one row and commitTransaction: the table at its next version
commitTransaction(d, id, exists) ==
    [d EXCEPT !.rev = d.rev + 1, !.tasks[id] = [rev |-> d.rev + 1, exists |-> exists]]

\* after commitTransaction: the invalidation is next, starting at `step`
committed(p, op, id, step) ==
    /\ pc' = [pc EXCEPT ![p] = step]
    /\ loc' = [loc EXCEPT ![p] = [op |-> op, arg |-> id, rev |-> db.rev + 1]]
    /\ ret' = NoRet

\* the catch blocks: rollbackTransaction, then the HttpException of the operation
mutationCatch(p, op, id, wasCommitted) ==
    cacheReturn(p, [op |-> op, arg |-> id, threw |-> TRUE, committed |-> wasCommitted,
                    rollback |-> TRUE])

\* lines 26-43: the new row is saved, the queue job added, the transaction committed
create(p) ==
    /\ cacheCall(p)
    /\ \E id \in TaskIds :
          /\ ~db.tasks[id].exists
          /\ db' = commitTransaction(db, id, TRUE)
          /\ committed(p, "create", id, "keys")
    /\ UNCHANGED <<now, store, config, fails, hist, audit>>

\* lines 160-190: the row is read in the transaction, saved and committed; without a
\* row the NotFoundException lands in the catch
update(p, id) ==
    /\ cacheCall(p)
    /\ IF db.tasks[id].exists
       THEN /\ db' = commitTransaction(db, id, TRUE)
            /\ committed(p, "update", id, "del")
       ELSE /\ db' = db
            /\ mutationCatch(p, "update", id, FALSE)
    /\ UNCHANGED <<now, store, config, fails, hist, audit>>

\* lines 210-225
remove(p, id) ==
    /\ cacheCall(p)
    /\ IF db.tasks[id].exists
       THEN /\ db' = commitTransaction(db, id, FALSE)
            /\ committed(p, "remove", id, "del")
       ELSE /\ db' = db
            /\ mutationCatch(p, "remove", id, FALSE)
    /\ UNCHANGED <<now, store, config, fails, hist, audit>>

\* lines 33-41, 178-188, 224: save, remove or the queue fails before the commit
transactionFail(p, op, id) ==
    /\ cacheCall(p)
    /\ backendFails
    /\ mutationCatch(p, op, id, FALSE)
    /\ UNCHANGED <<now, store, config, hist, db, audit>>

\* lines 194, 229: cacheService.delete of task:<id>, the first command of Promise.all
invalidateDelete(p) ==
    /\ pc[p] = "del"
    /\ loc[p].op \in {"update", "remove"}
    /\ store' = RedisDel(store, {getKey(SINGLE_TASK(loc[p].arg), NoKey)}, now)
    /\ pc' = [pc EXCEPT ![p] = "keys"]
    /\ ret' = NoRet
    /\ UNCHANGED <<now, config, fails, loc, calls, hist, db, audit>>

\* the DEL failed: delete answers false and nothing is thrown
invalidateDeleteFail(p) ==
    /\ pc[p] = "del"
    /\ loc[p].op \in {"update", "remove"}
    /\ backendFails
    /\ \E applied \in BOOLEAN :
          store' = IF applied
                   THEN RedisDel(store, {getKey(SINGLE_TASK(loc[p].arg), NoKey)}, now)
                   ELSE store
    /\ pc' = [pc EXCEPT ![p] = "keys"]
    /\ ret' = NoRet
    /\ UNCHANGED <<now, config, loc, calls, hist, db, audit>>

\* lines 48, 198, 231: the operation returns
mutationReturn(p) ==
    cacheReturn(p, [op |-> loc[p].op, arg |-> loc[p].arg, rev |-> loc[p].rev,
                    threw |-> FALSE, committed |-> TRUE, rollback |-> FALSE])

\* lines 46, 195, 230: cacheService.clear('tasks'), its KEYS tasks:*
invalidateClear(p) ==
    /\ pc[p] = "keys"
    /\ LET keys == RedisKeys(store, <<"tasks">>, now)
       IN IF keys # {}
          THEN /\ pc' = [pc EXCEPT ![p] = "clearDel"]
               /\ loc' = [loc EXCEPT ![p] = loc[p] @@ [keys |-> keys]]
               /\ ret' = NoRet
          ELSE mutationReturn(p)
    /\ UNCHANGED <<now, store, config, fails, calls, hist, db, audit>>

\* the DEL of the enumerated keys
invalidateClearDel(p) ==
    /\ pc[p] = "clearDel"
    /\ store' = RedisDel(store, loc[p].keys, now)
    /\ mutationReturn(p)
    /\ UNCHANGED <<now, config, fails, calls, hist, db, audit>>

\* clear throws (KEYS failed): the catch of the operation runs after the commit
invalidateClearFail(p) ==
    /\ pc[p] = "keys"
    /\ backendFails
    /\ mutationCatch(p, loc[p].op, loc[p].arg, TRUE)
    /\ UNCHANGED <<now, store, config, calls, hist, db, audit>>

\* clear throws (DEL failed, before or after the server carried it out)
invalidateClearDelFail(p) ==
    /\ pc[p] = "clearDel"
    /\ backendFails
    /\ \E applied \in BOOLEAN :
          store' = IF applied THEN RedisDel(store, loc[p].keys, now) ELSE store
    /\ mutationCatch(p, loc[p].op, loc[p].arg, TRUE)
    /\ UNCHANGED <<now, config, calls, hist, db, audit>>

ReadThroughs == {"findOne", "findAll"}

\* the task service, the cache backend never failing
NextTasks ==
    \/ Tick
    \/ \E p \in Procs, id \in TaskIds : findOne(p, id)
    \/ \E p \in Procs : findOneQuery(p)
    \/ \E p \in Procs, f \in Filters : findAll(p, f)
    \/ \E p \in Procs : findAllQuery(p)
    \/ \E p \in Procs, op \in ReadThroughs : readThroughSet(p, op)
    \/ \E p \in Procs : create(p)
    \/ \E p \in Procs, id \in TaskIds : update(p, id)
    \/ \E p \in Procs, id \in TaskIds : remove(p, id)
    \/ \E p \in Procs : invalidateDelete(p)
    \/ \E p \in Procs : invalidateClear(p)
    \/ \E p \in Procs : invalidateClearDel(p)

SpecTasks == InitCache /\ [][NextTasks]_vars

\* the same, every backend call free to fail
NextTasksFail ==
    \/ NextTasks
    \/ \E p \in Procs, id \in TaskIds : findOneGetFail(p, id)
    \/ \E p \in Procs, f \in Filters : findAllGetFail(p, f)
    \/ \E p \in Procs, op \in ReadThroughs : readThroughSetFail(p, op)
    \/ \E p \in Procs, op \in {"create", "update", "remove"}, id \in TaskIds :
          transactionFail(p, op, id)
    \/ \E p \in Procs : invalidateDeleteFail(p)
    \/ \E p \in Procs : invalidateClearFail(p)
    \/ \E p \in Procs : invalidateClearDelFail(p)

SpecTasksFail == InitCache /\ [][NextTasksFail]_vars

\* --------------------------------------------------------- AuthService
\* a refresh token is named by its row number in refresh_tokens; a presented token may
\* also match no row
Tokens == 1..(MaxCalls + 1)

\* line 80: !token || token.isRevoked || token.expiresAt < new Date()
invalidToken(d, t, time) ==
    \/ t > Len(d.tokens)
    \/ d.tokens[t].isRevoked
    \/ d.tokens[t].expiresAt < time

\* lines 24-39: the user is looked up and the password compared, then generateTokens
login(p, userId, passwordValid) ==
    /\ cacheCall(p)
    /\ IF passwordValid
       THEN /\ pc' = [pc EXCEPT ![p] = "generate"]
            /\ loc' = [loc EXCEPT ![p] =
                         [op |-> "login", token |-> 0, userId |-> userId,
                          started |-> audit.logouts]]
            /\ ret' = NoRet
       ELSE cacheReturn(p, [op |-> "login", token |-> 0, threw |-> TRUE,
                            error |-> "Invalid credentials"])
    /\ UNCHANGED <<now, store, config, fails, hist, db, audit>>

\* lines 72-82: the row of the presented token is read and checked
refreshTokens(p, t) ==
    /\ cacheCall(p)
    /\ IF invalidToken(db, t, now)
       THEN cacheReturn(p, [op |-> "refreshTokens", token |-> t, threw |-> TRUE,
                            error |-> "Invalid refresh token"])
       ELSE /\ pc' = [pc EXCEPT ![p] = "revoke"]
            /\ loc' = [loc EXCEPT ![p] =
                         [op |-> "refreshTokens", token |-> t,
                          userId |-> db.tokens[t].userId, started |-> audit.logouts]]
            /\ ret' = NoRet
    /\ UNCHANGED <<now, store, config, fails, hist, db, audit>>

\* lines 85-86: token.isRevoked = true, save
refreshTokensSave(p) ==
    /\ pc[p] = "revoke"
    /\ db' = [db EXCEPT !.tokens[loc[p].token].isRevoked = TRUE]
    /\ pc' = [pc EXCEPT ![p] = "generate"]
    /\ ret' = NoRet
    /\ UNCHANGED <<now, store, config, fails, loc, calls, hist, audit>>

\* lines 100-110, 124-136: a new row that expires in 7 days; the token pair is returned
generateRefreshToken(p) ==
    /\ pc[p] = "generate"
    /\ db' = [db EXCEPT !.tokens =
                 Append(@, [userId |-> loc[p].userId, isRevoked |-> FALSE,
                            expiresAt |-> now + RefreshExpirationMs])]
    /\ audit' = [audit EXCEPT
                    !.issued = Append(@, loc[p].started),
                    !.uses = Append(IF loc[p].op = "refreshTokens"
                                    THEN [@ EXCEPT ![loc[p].token] = @ + 1]
                                    ELSE @, 0)]
    /\ cacheReturn(p, [op |-> loc[p].op, token |-> loc[p].token, threw |-> FALSE,
                       error |-> "", refresh_token |-> Len(db.tokens) + 1])
    /\ UNCHANGED <<now, store, config, fails, calls, hist>>

\* lines 93-98: UPDATE refresh_tokens SET isRevoked = true WHERE userId AND NOT isRevoked
logout(p, userId) ==
    /\ cacheCall(p)
    /\ db' = [db EXCEPT !.tokens =
                 [t \in DOMAIN @ |->
                     IF @[t].userId = userId /\ ~@[t].isRevoked
                     THEN [@[t] EXCEPT !.isRevoked = TRUE]
                     ELSE @[t]]]
    /\ audit' = [audit EXCEPT !.logouts = @ + 1]
    /\ cacheReturn(p, [op |-> "logout", userId |-> userId, threw |-> FALSE])
    /\ UNCHANGED <<now, store, config, fails, hist>>

NextAuth ==
    \/ Tick
    \/ \E p \in Procs, u \in UserIds, valid \in BOOLEAN : login(p, u, valid)
    \/ \E p \in Procs, t \in Tokens : refreshTokens(p, t)
    \/ \E p \in Procs : refreshTokensSave(p)
    \/ \E p \in Procs : generateRefreshToken(p)
    \/ \E p \in Procs, u \in UserIds : logout(p, u)

SpecAuth == InitCache /\ [][NextAuth]_vars

\* ---------------------------------------------------------------- claims
\* the RateWindow of the data model: key:windowIndex under the limiter's key prefix
WindowKey(h) == <<"ratelimit", h[1], ToString(h[2])>>

BlockRecord(key) == <<"ratelimit", key, "blocked">>

WindowKeys(s) == {y \in DOMAIN s : Len(y) = 3 /\ y[1] = "ratelimit" /\ y[3] # "blocked"}

InFlight(h) ==
    {p \in Procs : /\ pc[p] \in {"exec", "pexpire", "block"}
                   /\ loc[p].key = h[1] /\ loc[p].win = h[2]}

IsCurrent(h, t) == h[2] = WindowIndex(t, config[h[1]].duration)

Granted(h) == At(granted, h, [all |-> 0, inWindow |-> 0])

ConsumeReturned == ret.op = "consume" /\ ~ret.failOpen

RetWindow == <<ret.key, ret.win>>

\* C1: when exactly N consume calls were made for a window key with points = N, all of
\* them have finished and the window is still the current one, all N returned
\* success=true and the stored counter of the window key is exactly N.
C1_ConcurrentConsumeAllSucceed ==
    \A h \in DOMAIN incrs :
        (/\ Len(incrs[h]) = config[h[1]].points
         /\ InFlight(h) = {}
         /\ IsCurrent(h, now))
        => /\ Granted(h).all = Len(incrs[h])
           /\ Live(store, WindowKey(h), now)
           /\ store[WindowKey(h)].val = Len(incrs[h])

\* the N calls were all in flight together: the call returning last entered consume
\* while the N-1 others were between their Date.now() and their return
C1_Witness ==
    /\ ConsumeReturned
    /\ ret.peers = NumProcs
    /\ ret.points = NumProcs
    /\ Len(incrs[RetWindow]) = NumProcs
    /\ InFlight(RetWindow) = {}
    /\ IsCurrent(RetWindow, now)
    /\ Granted(RetWindow).all = NumProcs
    /\ store[WindowKey(RetWindow)].val = NumProcs

\* C2 as stated: per key and window at most `points` consume calls return success=true,
\* and the k-th call to increment a window key observes the count k.
C2_Original ==
    /\ \A h \in DOMAIN granted : granted[h].all <= config[h[1]].points
    /\ ConsumeReturned => ret.consumedPoints = ret.ord

\* C2 amended: the same for the calls whose increment reaches the backend while the
\* window they computed from Date.now() is still the current one.
C2_SerializedWithinWindow ==
    /\ \A h \in DOMAIN granted : granted[h].inWindow <= config[h[1]].points
    /\ (ConsumeReturned /\ ret.inWindow) => ret.consumedPoints = ret.ord

\* more callers than points raced for one window key, and only `points` were granted
C2_Witness ==
    /\ ConsumeReturned
    /\ ret.inWindow
    /\ ret.peers = NumProcs
    /\ ret.ord > ret.points
    /\ ~ret.result.success
    /\ Granted(RetWindow).inWindow = ret.points

\* C3: the n-th consume call inside a window returns success=true and
\* remainingPoints = P - n for n = 1..P, and success=false, remainingPoints = 0 for
\* n = P + 1.
C3_SequentialCalls ==
    (ConsumeReturned /\ ret.inWindow) =>
        /\ ret.ord <= ret.points =>
              ret.result.success /\ ret.result.remainingPoints = ret.points - ret.ord
        /\ ret.ord = ret.points + 1 =>
              ~ret.result.success /\ ret.result.remainingPoints = 0

\* one caller made P + 1 calls one after the other, and the last one was refused
C3_Witness ==
    /\ ConsumeReturned
    /\ ret.inWindow
    /\ ret.ord = ret.points + 1
    /\ ret.points = MaxPoints
    /\ \A i \in 1..Len(incrs[RetWindow]) : incrs[RetWindow][i] = ret.proc
    /\ ~ret.result.success
    /\ ret.result.remainingPoints = 0

\* C4: the first consume call to increment the key of a new window observes the count 1
\* and returns success=true, remainingPoints = P - 1, msBeforeNext = D * 1000.
C4_FreshWindow ==
    (ConsumeReturned /\ ret.ord = 1) =>
        /\ ret.consumedPoints = 1
        /\ ret.result.success
        /\ ret.result.remainingPoints = ret.points - 1
        /\ ret.result.msBeforeNext = ret.duration * 1000

\* the window before reached a count above P
C4_Witness ==
    /\ ConsumeReturned
    /\ ret.ord = 1
    /\ ret.win >= 1
    /\ IsCurrent(RetWindow, now)
    /\ <<ret.key, ret.win - 1>> \in DOMAIN incrs
    /\ Len(incrs[<<ret.key, ret.win - 1>>]) > ret.points
    /\ ret.result.success
    /\ ret.result.msBeforeNext = ret.duration * 1000

\* C5: an over-limit consume call with blockDuration configured leaves a BlockRecord that
\* expires blockDuration seconds after the write, and isBlocked returns true exactly
\* until the BlockRecord written last has run its blockDuration, whatever the count of
\* the current window.
C5_BlockedUntilExpiry ==
    /\ (ConsumeReturned /\ ret.consumedPoints > ret.points /\ ret.blockDuration # 0) =>
          /\ Live(store, BlockRecord(ret.key), now)
          /\ store[BlockRecord(ret.key)].exp = now + ret.blockDuration * 1000
    /\ (ret.op = "isBlocked" /\ ~ret.failed) =>
          ret.blocked = (blockUntil[ret.key] # NoExpiry /\ now < blockUntil[ret.key])

\* isBlocked returned false after the block ran out while the window count is above P
C5_Witness ==
    /\ ret.op = "isBlocked"
    /\ ~ret.failed
    /\ ~ret.blocked
    /\ blockUntil[ret.key] # NoExpiry
    /\ now >= blockUntil[ret.key]
    /\ LET r == WindowKey(<<ret.key, WindowIndex(now, config[ret.key].duration)>>)
       IN Live(store, r, now) /\ store[r].val > config[ret.key].points

\* C6: a consume call one of whose backend calls failed does not raise and returns
\* exactly {success: true, remainingPoints: 1, msBeforeNext: 0}.
C6_ConsumeFailsOpen ==
    (ret.op = "consume" /\ ret.failOpen) =>
        /\ ~ret.result.threw
        /\ ret.result.success = TRUE
        /\ ret.result.remainingPoints = 1
        /\ ret.result.msBeforeNext = 0
        /\ pc[ret.proc] = "idle"

\* the BlockRecord write of an over-limit call failed, and the call reported success
C6_Witness ==
    /\ ret.op = "consume"
    /\ ret.failedAt = "block"
    /\ ret.consumedPoints > ret.points
    /\ ret.result.success
    /\ ret.result.remainingPoints = 1

\* C7: isBlocked never raises; it returns false when its backend call failed, and
\* otherwise true exactly when the store holds a live key:blocked at the time of the call.
C7_IsBlockedIffLiveRecord ==
    ret.op = "isBlocked" =>
        /\ ~ret.threw
        /\ ret.blocked = IF ret.failed THEN FALSE
                         ELSE Live(store, BlockRecord(ret.key), now)

C7_Witness ==
    /\ ret.op = "isBlocked"
    /\ ~ret.failed
    /\ ret.blocked
    /\ Live(store, BlockRecord(ret.key), now)

\* C8: in every step, a live window counter either stays, grows by one, or goes away
\* because its own expiry time has come.
C8_Original ==
    [][\A r \in WindowKeys(store) :
          Live(store, r, now) =>
              \/ /\ r \in DOMAIN store'
                 /\ store'[r].val \in {store[r].val, store[r].val + 1}
              \/ /\ store[r].exp # NoExpiry
                 /\ now' >= store[r].exp]_vars

\* C9: no consume call observes a window key without expiry behind a count it did not
\* start, and whenever no call stands between its INCR and its PEXPIRE every live window
\* key has an expiry.
C9_Original ==
    /\ (ConsumeReturned /\ ret.consumedPoints > 1) => ret.result.msBeforeNext >= 0
    /\ \A r \in WindowKeys(store) :
          (Live(store, r, now) /\ \A p \in Procs : pc[p] # "pexpire")
              => store[r].exp # NoExpiry

\* C10 as stated: the gate never enters consume for a key that has a live BlockRecord
\* (requests whose isBlocked call failed open set aside).
C10_Original ==
    (ret.op = "gateConsume" /\ ~ret.checkFailed) => ~Live(store, BlockRecord(ret.key), now)

\* C10 amended: the gate enters consume for a key with a live BlockRecord only when that
\* BlockRecord was written after the request's isBlocked call was served, or when that
\* isBlocked call failed open.
C10_NoConsumeAfterSeeingBlock ==
    (ret.op = "gateConsume" /\ Live(store, BlockRecord(ret.key), now)) =>
        \/ ret.checkFailed
        \/ blockWrites > ret.seenWrites

\* a request met the live BlockRecord and was rejected before consume
C10_Witness ==
    /\ ret.op = "canActivate"
    /\ ret.outcome = "reject"
    /\ ~ret.consumed
    /\ Live(store, BlockRecord(ret.key), now)

\* C11: a request to a route with a rate-limit configuration is rejected (429) exactly
\* when its isBlocked call returned true or its consume call returned success = false;
\* a request that was not found blocked went through consume and got the three headers
\* limit, remaining and reset from the route's limit and consume's result, and it is
\* allowed exactly when consume succeeded.
C11_RejectIffBlockedOrOverLimit ==
    (ret.op = "canActivate" /\ ret.limited) =>
        /\ (ret.outcome = "reject") <=> (ret.blocked \/ (ret.consumed /\ ~ret.result.success))
        /\ ret.outcome \in {"allow", "reject"}
        /\ ret.blocked <=> ~ret.consumed
        /\ ret.consumed =>
              ret.headers = [limit |-> config[ret.key].points,
                             remaining |-> ret.result.remainingPoints,
                             reset |-> now + ret.result.msBeforeNext]

C11_Witness ==
    /\ ret.op = "canActivate" /\ ret.limited
    /\ ret.consumed /\ ~ret.result.success /\ ret.outcome = "reject"
    /\ ret.headers.remaining = 0

\* C12: a request to an operation with no rate-limit configuration is allowed in the
\* step that made it, starts no isBlocked or consume call, and leaves the database (every
\* RateWindow and BlockRecord) and every other call untouched.
C12_UnlimitedRouteTouchesNothing ==
    [][\A p \in Procs :
          /\ (pc[p] = "idle" /\ pc'[p] # "idle") => loc'[p].rateLimit # NoMeta
          /\ (ret'.op = "canActivate" /\ ret'.proc = p /\ ~ret'.limited) =>
                /\ ret'.outcome = "allow"
                /\ ~ret'.consumed
                /\ store' = store /\ pc' = pc /\ loc' = loc /\ hist' = hist]_vars

C12_Witness ==
    /\ ret.op = "canActivate" /\ ~ret.limited /\ ret.outcome = "allow"
    /\ WindowKeys(store) # {}
    /\ pc[ret.proc] = "idle"

\* the cache entry of the data model: `namespace:key`, or the bare key without namespace
CompositeKey(key, namespace) == namespace \o key

GivenNamespace(options) ==
    IF "namespace" \in DOMAIN options THEN options.namespace ELSE <<>>

GivenTtl(options) == IF "ttl" \in DOMAIN options THEN options.ttl ELSE 300

\* the database after `value` was written under `key` with the options' TTL at time t
Written(s, key, value, options, t) ==
    (CompositeKey(key, GivenNamespace(options)) :>
        [val |-> ToString(value.num), exp |-> t + GivenTtl(options) * 1000]) @@ s

Under(s, namespace) ==
    {y \in DOMAIN s : Len(y) > Len(namespace) /\ SubSeq(y, 1, Len(namespace)) = namespace}

CacheReadFailed(op) == ret.op = op /\ ret.failed

\* C13: a cache read whose backend call failed does not raise and returns the empty
\* result: get null, has false, mget one null per requested key, getStats zero keys and
\* zero memory.
C13_ReadsDegrade ==
    /\ CacheReadFailed("get") => ~ret.threw /\ ret.value = Null
    /\ CacheReadFailed("has") => ~ret.threw /\ ret.value = FALSE
    /\ CacheReadFailed("mget") =>
          /\ ~ret.threw
          /\ Len(ret.value) = Len(ret.keys)
          /\ \A i \in 1..Len(ret.keys) : ret.value[i] = Null
    /\ CacheReadFailed("getStats") =>
          ~ret.threw /\ ret.value.totalKeys = 0 /\ ret.value.memoryUsage = 0

C13_Witness ==
    /\ CacheReadFailed("mget")
    /\ \E i \in 1..Len(ret.keys) : CompositeKey(ret.keys[i], ret.namespace) \in DOMAIN store

\* C14 as stated: a set that raised left the database as it was, and a set that returned
\* normally wrote the entry with the given TTL (300 s when none was given).
C14_Original ==
    [][ret'.op = "set" =>
          IF ret'.threw
          THEN store' = store
          ELSE store' = Written(store, ret'.key, ret'.value, ret'.options, now)]_vars

\* C14: a set whose backend write failed raises, and the database is then either as it was
\* or holds the entry as a successful set would have written it (the failure reached the
\* caller after the server carried the write out); a set that returned normally wrote the
\* entry with the given TTL (300 s when none was given).
C14_SetSurfacesFailure ==
    [][ret'.op = "set" =>
          IF ret'.threw
          THEN store' \in {store, Written(store, ret'.key, ret'.value, ret'.options, now)}
          ELSE store' = Written(store, ret'.key, ret'.value, ret'.options, now)]_vars

C14_Witness ==
    /\ ret.op = "set" /\ ret.threw /\ "ttl" \notin DOMAIN ret.options
    /\ calls = 1 /\ now > 0
    /\ CompositeKey(ret.key, GivenNamespace(ret.options)) \in DOMAIN store
    /\ store[CompositeKey(ret.key, GivenNamespace(ret.options))].exp = now + 300000

\* C15 as stated: an mset that returned normally has written every entry of its batch.
C15_Original ==
    (ret.op = "mset" /\ ~ret.threw) =>
        \A k \in DOMAIN ret.keyValues :
            LET ck == CompositeKey(k, GivenNamespace(ret.options))
            IN /\ ck \in DOMAIN store
               /\ store[ck] = [val |-> ToString(ret.keyValues[k].num),
                               exp |-> now + GivenTtl(ret.options) * 1000]

\* C16 as stated: clear never raises to its caller.
C16_Original == ret.op = "clear" => ~ret.threw

DeleteKey == CompositeKey(ret'.key, ret'.namespace)

\* C17 as stated: delete never raises, returns true exactly when the composite key was
\* there and this call removed it, false when the backend call failed, and after true
\* the key is absent.
C17_Original ==
    [][ret'.op = "delete" =>
          /\ ~ret'.threw
          /\ ret'.value <=> (DeleteKey \in DOMAIN store /\ DeleteKey \notin DOMAIN store')
          /\ ret'.failed => ~ret'.value
          /\ ret'.value => DeleteKey \notin DOMAIN store']_vars

\* C17: delete never raises; it returns true only when the composite key was there and
\* this call removed it, and then the key is absent; when the backend call did not fail
\* it returns true exactly when the key was there, and the key is absent afterwards;
\* when the backend call failed it returns false, whether or not the server removed the
\* key; no other key is touched.
C17_DeleteReportsRemoval ==
    [][ret'.op = "delete" =>
          /\ ~ret'.threw
          /\ ret'.value => (DeleteKey \in DOMAIN store /\ DeleteKey \notin DOMAIN store')
          /\ ~ret'.failed =>
                /\ ret'.value <=> DeleteKey \in DOMAIN store
                /\ DeleteKey \notin DOMAIN store'
          /\ ret'.failed => ~ret'.value
          /\ \A k \in DOMAIN store \ {DeleteKey} : k \in DOMAIN store' /\ store'[k] = store[k]
          /\ DOMAIN store' \subseteq DOMAIN store]_vars

C17_Witness ==
    /\ ret.op = "delete" /\ ret.value /\ ret.namespace # <<>>
    /\ CompositeKey(ret.key, ret.namespace) \notin DOMAIN store
    /\ store # EmptyStore

C19_EnumeratedKeysNeverSurvive ==
    (ret.op = "clear" /\ ~ret.threw) => \A k \in ret.keys : k \notin DOMAIN store

C19_Witness ==
    /\ ret.op = "clear" /\ ~ret.threw /\ ret.namespace # <<>> /\ ret.keys # {}
    /\ Under(store, ret.namespace) # {}

\* C20: mget returns one element per requested key, the value stored under that key in
\* the namespace or null when the key is absent; mget([a,b,c]) right after
\* mset({a:1,b:2}) in the same namespace returns [1,2,null].
C20_MgetAligned ==
    [][ret'.op = "mget" =>
          /\ Len(ret'.value) = Len(ret'.keys)
          /\ \A i \in 1..Len(ret'.keys) :
                LET ck == CompositeKey(ret'.keys[i], ret'.namespace)
                IN IF ck \in DOMAIN store'
                   THEN /\ ret'.value[i] # Null
                        /\ ToString(ret'.value[i].num) = store'[ck].val
                   ELSE ret'.value[i] = Null
          /\ (/\ ret.op = "mset"
              /\ ret.keyValues = (<<"a">> :> Num(1)) @@ (<<"b">> :> Num(2))
              /\ GivenNamespace(ret.options) = ret'.namespace
              /\ ret'.keys = << <<"a">>, <<"b">>, <<"c">> >>) =>
                ret'.value = <<Num(1), Num(2), Null>>]_vars

C20_Witness ==
    /\ ret.op = "mget" /\ ret.namespace = <<"tasks">>
    /\ ret.value = <<Num(1), Num(2), Null>>

\* C23: in every step that creates or rewrites the BlockRecord of a key, the writer is a
\* consume call for that key that got a post-increment count above its points with a
\* blockDuration configured; no other step (a consume at or below its points or without
\* blockDuration, isBlocked) changes a BlockRecord other than by its expiry.
C23_BlockWrittenOnlyOverLimit ==
    [][\A k \in Keys :
          /\ (/\ BlockRecord(k) \in DOMAIN store'
              /\ BlockRecord(k) \in DOMAIN store => store'[BlockRecord(k)] # store[BlockRecord(k)])
                => \E p \in Procs :
                      /\ pc[p] = "block" /\ pc'[p] # "block"
                      /\ loc[p].op = "consume" /\ loc[p].key = k
                      /\ loc[p].consumedPoints > loc[p].points
                      /\ loc[p].blockDuration > 0
          /\ (BlockRecord(k) \in DOMAIN store /\ BlockRecord(k) \notin DOMAIN store')
                => now' >= store[BlockRecord(k)].exp]_vars

C23_Witness ==
    /\ ConsumeReturned /\ ret.consumedPoints > ret.points /\ ret.blockDuration > 0
    /\ Live(store, BlockRecord(ret.key), now)
    /\ blockWrites = 1

\* the requests of one caller come one after the other: no other request is under way
Sequential(p) == \A q \in Procs \ {p} : pc[q] = "idle"

\* C24: for requests to a route with limit L that come one after the other, with no
\* backend failure: the n-th consume of a window, made inside it, is allowed for n <= L;
\* the (L+1)-th is rejected and leaves a BlockRecord that expires 60 s later; a request
\* whose isBlocked call meets the live BlockRecord is found blocked, and its rejection
\* changes nothing in the database: no window counter is incremented and the BlockRecord
\* keeps its expiry.
C24_BlockedRequestsTouchNothing ==
    [][\A p \in Procs :
          /\ (/\ ret'.op = "canActivate" /\ ret'.proc = p /\ ret'.limited /\ ret'.consumed
              /\ ret.op = "consume" /\ ret.proc = p /\ ~ret.failOpen /\ ret.inWindow
              /\ ret.peers = 1 /\ Sequential(p)) =>
                /\ ret.ord <= ret.points => ret'.outcome = "allow"
                /\ ret.ord = ret.points + 1 =>
                      /\ ret'.outcome = "reject"
                      /\ BlockRecord(ret.key) \in DOMAIN store
                      /\ store[BlockRecord(ret.key)].exp = now + 60000
                      /\ blockUntil[ret.key] = store[BlockRecord(ret.key)].exp
          /\ (/\ pc[p] = "exists" /\ ret'.op = "isBlocked" /\ ret'.proc = p /\ ~ret'.failed
              /\ Live(store, BlockRecord(ret'.key), now)) => ret'.blocked
          /\ (ret'.op = "canActivate" /\ ret'.proc = p /\ ret'.blocked) =>
                /\ ret'.outcome = "reject" /\ ~ret'.consumed
                /\ store' = store /\ hist' = hist]_vars

C24_Witness ==
    /\ ret.op = "canActivate" /\ ret.blocked /\ ret.outcome = "reject"
    /\ Sequential(ret.proc)
    /\ store[BlockRecord(ret.key)].exp = 60000
    /\ now = 30000
    /\ blockWrites = 1 /\ fails = 0

\* C25 as stated: every consume result that is not the fail-open one has remainingPoints
\* = max(points - count, 0), msBeforeNext = duration*1000 on the first hit of a window and
\* the remaining life of the window key otherwise, and 0 <= msBeforeNext <= duration*1000.
C25_Original ==
    ConsumeReturned =>
        /\ ret.result.remainingPoints =
              IF ret.points > ret.consumedPoints THEN ret.points - ret.consumedPoints ELSE 0
        /\ ret.consumedPoints = 1 => ret.result.msBeforeNext = ret.duration * 1000
        /\ ret.result.msBeforeNext >= 0
        /\ ret.result.msBeforeNext <= ret.duration * 1000

WindowsOf(k) == 0..((MaxTicks * TickMs) \div (config[k].duration * 1000))

\* C26 as stated: over two adjacent windows of a key at most 2*points consume calls
\* succeed.
C26_Original ==
    \A k \in Keys : \A w \in WindowsOf(k) :
        Granted(<<k, w>>).all + Granted(<<k, w + 1>>).all <= 2 * config[k].points

\* C26: over two adjacent windows of a key at most 2*points of the consume calls whose
\* increment reached the backend inside the window they computed succeed; 2*points such
\* calls succeeding within less than one window duration is reachable (the witness).
C26_HardCutoff ==
    \A k \in Keys : \A w \in WindowsOf(k) :
        Granted(<<k, w>>).inWindow + Granted(<<k, w + 1>>).inWindow <= 2 * config[k].points

\* points calls succeeded in window 0, the first of them 30 s before its end, and points
\* calls in window 1 at its very start
C26_Witness ==
    \E k \in Keys :
        /\ config[k].duration = 60 /\ config[k].blockDuration = 0
        /\ config[k].points > 1
        /\ now = 60000
        /\ WindowKey(<<k, 0>>) \in DOMAIN store
        /\ store[WindowKey(<<k, 0>>)].exp = 90000
        /\ Granted(<<k, 0>>).inWindow = config[k].points
        /\ Granted(<<k, 1>>).inWindow = config[k].points

SetThenGet ==
    /\ ret.op = "set" /\ ~ret.threw
    /\ ret'.op = "get" /\ ~ret'.failed
    /\ ret'.key = ret.key /\ ret'.namespace = GivenNamespace(ret.options)

\* the declared life of every entry, and who may change an entry: set writes the entry
\* to expire ttl seconds later, nothing but a set gives an entry a new value or expiry,
\* and get returns non-null exactly for a key whose entry has not reached its expiry
EntriesKeepTheirTtl ==
    /\ (ret'.op = "set" /\ ~ret'.threw) =>
          LET ck == CompositeKey(ret'.key, GivenNamespace(ret'.options))
          IN ck \in DOMAIN store' /\ store'[ck].exp = now + GivenTtl(ret'.options) * 1000
    /\ \A ck \in DOMAIN store' :
          (ck \notin DOMAIN store \/ store'[ck] # store[ck]) =>
              ret'.op = "set" /\ ck = CompositeKey(ret'.key, GivenNamespace(ret'.options))
    /\ (ret'.op = "get" /\ ~ret'.failed) =>
          LET ck == CompositeKey(ret'.key, ret'.namespace)
          IN (ret'.value # Null) <=> (ck \in DOMAIN store /\ now < store[ck].exp)

\* C21 as stated: get right after set(key, V, ttl) returns a value equal to V, and no
\* entry is readable after its declared TTL.
C21_Original ==
    [][/\ SetThenGet => ret'.value = ret.value
       /\ EntriesKeepTheirTtl]_vars

\* what JSON.parse(JSON.stringify(V)) is: V itself, but the ISO string for a Date
JsonImage(v) == IF "date" \in DOMAIN v THEN [str |-> "T" \o ToString(v.date)] ELSE v

\* C21: get right after set(key, V, ttl) returns JSON.parse(JSON.stringify(V)), which is
\* V for null, numbers and strings and the ISO string for a Date; no entry is readable
\* after its declared TTL.
C21_RoundTripThroughJson ==
    [][/\ SetThenGet => ret'.value = JsonImage(ret.value)
       /\ EntriesKeepTheirTtl]_vars

\* a Date was cached and read back as a string
C21_Witness ==
    /\ ret.op = "get" /\ ~ret.failed /\ "str" \in DOMAIN ret.value
    /\ now > 0

\* C22: a failing cache backend never makes a read fail: findOne and findAll raise
\* nothing but the NotFoundException of a row the database does not have, and otherwise
\* return the result of the database query.
C22_Original ==
    (ret.op \in {"findOne", "findAll"} /\ ret.threw) => ret.error = "NotFound"

\* C27: when update(id) or remove(id) has returned successfully, the cache holds no
\* entry under task:<id> with a value read before the mutation was committed.
C27_Original ==
    (ret.op \in {"update", "remove"} /\ ~ret.threw) =>
        (Live(store, SINGLE_TASK(ret.arg), now) =>
            JSONparse(store[SINGLE_TASK(ret.arg)].val).num >= ret.rev)

\* C28: create, update and remove report failure only if the transaction was not
\* committed, and rollbackTransaction is never called after the commit.
C28_Original ==
    ret.op \in {"create", "update", "remove"} =>
        /\ ret.threw => ~ret.committed
        /\ ret.rollback => ~ret.committed

\* C29: a refresh token is single-use: at most one refreshTokens call presenting it
\* ever succeeds, also when calls with the same token run concurrently.
C29_Original == \A t \in DOMAIN audit.uses : audit.uses[t] <= 1

\* C30: a refresh token obtained from a login or refreshTokens call that started
\* before a logout completed is not accepted by refreshTokens after that logout.
C30_Original ==
    \A p \in Procs :
        (pc[p] \in {"revoke", "generate"} /\ loc[p].op = "refreshTokens") =>
            audit.issued[loc[p].token] >= loc[p].started

====
